---- MODULE Spec2Model ----
(***************************************************************************)
(* visualize.py of GermanWordEmbeddings: draw_words and the script that    *)
(* calls it three times.                                                   *)
(*                                                                         *)
(* Coordinates are fixed-point numbers in thousandths (0.04 is 40, 3 is   *)
(* 3000).                                                                  *)
(* Python indices are 0-based, TLA+ sequences 1-based: Python v[i] is      *)
(* v[i+1] here.  A Python value that may be a bool or an object (the local *)
(* pca) is one of the strings "True", "False", "PCA".                      *)
(***************************************************************************)
EXTENDS Integers, Sequences, FiniteSets

VARIABLES
    model,      \* the loaded embedding: word -> vector (trained_model)
    calls,      \* the draw_words calls the run makes, in order
    callNo,     \* number of draw_words calls started so far
    pc,         \* position of the run
    error,      \* the exception that ended the run, "" if none
    words, pca, alternate, arrows, x1, x2, y1, y2, title,  \* parameters of draw_words
    vectors,    \* local: vectors of the words looked up so far
    vectors2d,  \* local: the reducer's output
    first,      \* local: colour alternation flag
    k,          \* number of (point, word) pairs the zip loop has consumed
    figure,     \* a figure has been created by this call
    axis,       \* <<>> while auto-scaling, else the fixed <<x1, x2, y1, y2>>
    markers,    \* plt.scatter calls on the figure
    labels,     \* plt.annotate calls on the figure
    connectors, \* plt.arrow calls on the figure
    heading,    \* plt.title text on the figure, "" if none
    shown,      \* numbers of the calls whose figure plt.show displayed
    reduced,    \* reducer invocations of the current call: kind and input
    events      \* the plotting/library calls of the current call, in order

vars == <<model, calls, callNo, pc, error, words, pca, alternate, arrows,
          x1, x2, y1, y2, title, vectors, vectors2d, first, k, figure, axis,
          markers, labels, connectors, heading, shown, reduced, events>>

----------------------------------------------------------------------------
(* Bounds *)

MaxLen == 4
GroupLen == 4
MaxMissing == 1

(* Program constants *)

Margin == 40
DefaultBound == 3000

----------------------------------------------------------------------------
(* Python helpers *)

Min(a, b) == IF a < b THEN a ELSE b

Take(s, n) == SubSeq(s, 1, Min(n, Len(s)))

Range(s) == {s[j] : j \in 1..Len(s)}

PyBool(b) == IF b THEN "True" ELSE "False"

\* truth value of a Python object: only the bool False is falsy here, an
\* estimator object has neither __bool__ nor __len__ and is truthy
Truthy(v) == v # "False"

\* range(start, stop, step) for step > 0, as the sequence of its values
PyRange(start, stop, step) ==
    LET n == IF stop > start THEN ((stop - start) + step - 1) \div step ELSE 0
    IN  [j \in 1..n |-> start + (j - 1) * step]

\* a keyword/positional argument of a call, or the parameter's default
Param(c, name, default) == IF name \in DOMAIN c THEN c[name] ELSE default

----------------------------------------------------------------------------
(* Configuration: the three word groups of the script, each cut to its     *)
(* first GroupLen words.                                                   *)

currency == Take(<<"Schweiz", "Franken", "Deutschland", "Euro", "Grossbritannien",
                   "britische_Pfund", "Japan", "Yen", "Russland", "Rubel", "USA",
                   "US-Dollar", "Kroatien", "Kuna">>, GroupLen)

capital == Take(<<"Athen", "Griechenland", "Berlin", "Deutschland", "Ankara",
                  "Tuerkei", "Bern", "Schweiz", "Hanoi", "Vietnam", "Lissabon",
                  "Portugal", "Moskau", "Russland", "Stockholm", "Schweden",
                  "Tokio", "Japan", "Washington", "USA">>, GroupLen)

language == Take(<<"Deutschland", "Deutsch", "USA", "Englisch", "Frankreich",
                   "Franzoesisch", "Griechenland", "Griechisch", "Norwegen",
                   "Norwegisch", "Schweden", "Schwedisch", "Polen", "Polnisch",
                   "Ungarn", "Ungarisch">>, GroupLen)

\* the three calls at the end of the script; every argument is passed
ScriptCall(ws, top, t) ==
    [words |-> ws, pca |-> TRUE, alternate |-> TRUE, arrows |-> TRUE,
     x1 |-> -3000, x2 |-> 3000, y1 |-> -2000, y2 |-> top, title |-> t]

Script ==
    << ScriptCall(currency, 2000, "PCA Visualisierung: Waehrung"),
       ScriptCall(capital, 2200, "PCA Visualisierung: Hauptstadt"),
       ScriptCall(language, 1700, "PCA Visualisierung: Sprache") >>

ScriptWords == Range(currency) \cup Range(capital) \cup Range(language)

----------------------------------------------------------------------------
(* Inputs of a single draw_words call *)

Words == {"A", "B"}

Vocabularies == {{"A", "B"}, {"A"}, {"B"}}

WordLists == UNION {[1..n -> Words] : n \in 0..MaxLen}

\* a call that leaves x1, x2, y1, y2 at their defaults
CallDefaultBounds(ws, p, a, r, t) ==
    [words |-> ws, pca |-> p, alternate |-> a, arrows |-> r, title |-> t]

\* a call that supplies the axis bounds
CallWithBounds(ws, p, a, r, t) ==
    [words |-> ws, pca |-> p, alternate |-> a, arrows |-> r,
     x1 |-> -3000, x2 |-> 3000, y1 |-> -2000, y2 |-> 2000, title |-> t]

Calls ==
    {CallDefaultBounds(ws, p, a, r, t) :
        ws \in WordLists, p \in BOOLEAN, a \in BOOLEAN, r \in BOOLEAN, t \in {"", "T"}}
    \cup
    {CallWithBounds(ws, p, a, r, t) :
        ws \in WordLists, p \in BOOLEAN, a \in BOOLEAN, r \in BOOLEAN, t \in {"", "T"}}

\* the vector the embedding file holds for a word: the file's content is an
\* input, here one fixed vector per word, different words differing
Vector(w) ==
    CASE w = "A" -> <<1, 0>>
      [] w = "B" -> <<0, 1>>
      [] OTHER -> LET s == currency \o capital \o language
                  IN  <<2, CHOOSE j \in 1..Len(s) :
                              s[j] = w /\ \A m \in 1..(j - 1) : s[m] # w>>

\* the points a reducer may place a vector at
Grid == {[x |-> 0, y |-> 0], [x |-> 300, y |-> 400]}

----------------------------------------------------------------------------
(* The expressions of draw_words *)

\* mutant: a word the model lacks gets a zero vector instead of a KeyError
LookupDefault(m, word) ==
    [ok |-> TRUE, vector |-> IF word \in DOMAIN m THEN m[word] ELSE <<0, 0>>]

\* model[word]: the vector, or the KeyError of a word the model lacks
Lookup(m, word) ==
    IF word \in DOMAIN m THEN [ok |-> TRUE, vector |-> m[word]]
    ELSE [ok |-> FALSE, vector |-> <<>>]

\* mutant: the branches of the reducer selection are swapped
SelectReducerSwapped(p) == IF Truthy(p) THEN "TSNE" ELSE "PCA"

\* if pca: PCA(...) else: TSNE(...)
SelectReducer(p) == IF Truthy(p) THEN "PCA" ELSE "TSNE"

\* pca.fit(vectors) and tsne.fit_transform(vectors) are scikit-learn calls;
\* both validate their input first and raise ValueError for a list without
\* samples ([] is not a 2-D array).  draw_words does not guard the call.
\* Lower limits on the number of samples for short non-empty lists differ
\* between library versions and are not modelled.
ReducerAccepts(vs) == Len(vs) > 0

\* what a reducer may return for n vectors: n points
Projections(n) == [1..n -> Grid]

\* if pca: plt.axis([x1, x2, y1, y2]); pca is by now the PCA object when the
\* flag was true
AxisAfterFigure(p, a, b, c, d) == IF Truthy(p) THEN <<a, b, c, d>> ELSE <<>>

\* mutant: the points are paired with the words in reverse order
ZipPairReversed(v2d, ws, j) == [point |-> v2d[j], word |-> ws[Len(ws) + 1 - j]]

\* the pair the zip loop yields in iteration j (1-based)
ZipPair(v2d, ws, j) == [point |-> v2d[j], word |-> ws[j]]

\* number of pairs zip yields
ZipLen(v2d, ws) == Min(Len(v2d), Len(ws))

\* marker colour, label offset and label alignment of one point
MarkerColor(f) == IF f THEN "r" ELSE "g"
LabelOffset(f) == IF f THEN <<-7, -6>> ELSE <<7, -6>>
LabelAlign(f) == IF f THEN "right" ELSE "left"

\* mutant: the flag is toggled whatever alternate says
NextFirstAlways(f, alt) == ~f

\* first = not first if alternate else first
NextFirst(f, alt) == IF alt THEN ~f ELSE f

\* mutant: the arrow loop steps by one
ArrowRangeStepOne(n) == PyRange(0, n - 1, 1)

\* range(0, len(words)-1, 2)
ArrowRange(n) == PyRange(0, n - 1, 2)

\* the arguments plt.arrow gets for the points p = vectors2d[i] and
\* q = vectors2d[i+1]: x, y, dx, dy
Arrow(p, q) ==
    LET a == p.x + Margin
        b == p.y
        c == q.x - Margin
        d == q.y
    IN  [x |-> a, y |-> b, dx |-> c - a, dy |-> d - b]

\* mutant: the figure is created before the words are looked up
PipelineFigureFirst ==
    <<"figure", "lookup", "reduce", "points", "arrows", "title", "show", "returned">>

\* mutant: the arrows are drawn before the points
PipelineArrowsFirst ==
    <<"lookup", "reduce", "figure", "arrows", "points", "title", "show", "returned">>

\* the statements of draw_words in program order
Pipeline == <<"lookup", "reduce", "figure", "points", "arrows", "title", "show", "returned">>

After(step) == Pipeline[1 + CHOOSE j \in 1..Len(Pipeline) : Pipeline[j] = step]

----------------------------------------------------------------------------
(* State *)

\* nothing of a call exists before the call
NoCall ==
    /\ callNo = 0
    /\ pc = "module"
    /\ error = ""
    /\ words = <<>>
    /\ pca = "False"
    /\ alternate = TRUE
    /\ arrows = TRUE
    /\ x1 = DefaultBound /\ x2 = DefaultBound /\ y1 = DefaultBound /\ y2 = DefaultBound
    /\ title = ""
    /\ vectors = <<>>
    /\ vectors2d = <<>>
    /\ first = TRUE
    /\ k = 0
    /\ figure = FALSE
    /\ axis = <<>>
    /\ markers = <<>>
    /\ labels = <<>>
    /\ connectors = <<>>
    /\ heading = ""
    /\ shown = <<>>
    /\ reduced = <<>>
    /\ events = <<>>

\* one draw_words call with arbitrary arguments on an arbitrary model
Init ==
    /\ model \in {[w \in V |-> Vector(w)] : V \in Vocabularies}
    /\ calls \in {<<c>> : c \in Calls}
    /\ NoCall

\* the script: the model is loaded, it may lack up to MaxMissing of the words
InitScript ==
    /\ model \in {[w \in ScriptWords \ M |-> Vector(w)] :
                    M \in {S \in SUBSET ScriptWords : Cardinality(S) <= MaxMissing}}
    /\ calls = Script
    /\ NoCall

----------------------------------------------------------------------------
(* Steps *)

\* draw_words(...) is called: the parameters are bound, omitted ones to their
\* defaults, and the locals of the new frame are fresh
Call ==
    /\ pc \in {"module", "returned"}
    /\ callNo < Len(calls)
    /\ LET c == calls[callNo + 1] IN
        /\ words' = c.words
        /\ pca' = PyBool(Param(c, "pca", FALSE))
        /\ alternate' = Param(c, "alternate", TRUE)
        /\ arrows' = Param(c, "arrows", TRUE)
        /\ x1' = Param(c, "x1", DefaultBound)
        /\ x2' = Param(c, "x2", DefaultBound)
        /\ y1' = Param(c, "y1", DefaultBound)
        /\ y2' = Param(c, "y2", DefaultBound)
        /\ title' = Param(c, "title", "")
    /\ callNo' = callNo + 1
    /\ vectors' = <<>>
    /\ vectors2d' = <<>>
    /\ first' = TRUE
    /\ k' = 0
    /\ figure' = FALSE
    /\ axis' = <<>>
    /\ markers' = <<>>
    /\ labels' = <<>>
    /\ connectors' = <<>>
    /\ heading' = ""
    /\ reduced' = <<>>
    /\ events' = <<>>
    /\ pc' = Pipeline[1]
    /\ UNCHANGED <<model, calls, error, shown>>

\* vectors = [model[word] for word in words], one element per step
LookupWord ==
    /\ pc = "lookup"
    /\ IF Len(vectors) < Len(words)
       THEN LET r == Lookup(model, words[Len(vectors) + 1]) IN
            IF r.ok
            THEN /\ vectors' = Append(vectors, r.vector)
                 /\ events' = Append(events, "lookup")
                 /\ UNCHANGED <<pc, error>>
            ELSE /\ pc' = "raised"
                 /\ error' = "KeyError"
                 /\ UNCHANGED <<vectors, events>>
       ELSE /\ pc' = After("lookup")
            /\ UNCHANGED <<vectors, events, error>>
    /\ UNCHANGED <<model, calls, callNo, words, pca, alternate, arrows, x1, x2, y1, y2,
                   title, vectors2d, first, k, figure, axis, markers, labels,
                   connectors, heading, shown, reduced>>

\* the reducer is built and run on the vectors; the PCA object replaces the
\* flag in the local pca
Reduce ==
    /\ pc = "reduce"
    /\ LET kind == SelectReducer(pca) IN
        /\ reduced' = Append(reduced, [kind |-> kind, input |-> vectors])
        /\ events' = Append(events, kind)
        /\ pca' = IF kind = "PCA" THEN "PCA" ELSE pca
    /\ IF ReducerAccepts(vectors)
       THEN /\ vectors2d' \in Projections(Len(vectors))
            /\ pc' = After("reduce")
            /\ error' = error
       ELSE /\ vectors2d' = vectors2d
            /\ pc' = "raised"
            /\ error' = "ValueError"
    /\ UNCHANGED <<model, calls, callNo, words, alternate, arrows, x1, x2, y1, y2, title,
                   vectors, first, k, figure, axis, markers, labels, connectors,
                   heading, shown>>

\* plt.figure(...); if pca: plt.axis(...); first = True
Figure ==
    /\ pc = "figure"
    /\ figure' = TRUE
    /\ axis' = AxisAfterFigure(pca, x1, x2, y1, y2)
    /\ events' = events \o (IF AxisAfterFigure(pca, x1, x2, y1, y2) = <<>>
                            THEN <<"figure">> ELSE <<"figure", "axis">>)
    /\ first' = TRUE
    /\ pc' = After("figure")
    /\ UNCHANGED <<model, calls, callNo, error, words, pca, alternate, arrows, x1, x2, y1,
                   y2, title, vectors, vectors2d, k, markers, labels, connectors,
                   heading, shown, reduced>>

\* one iteration of for point, word in zip(vectors2d, words), or its end
Points ==
    /\ pc = "points"
    /\ IF k < ZipLen(vectors2d, words)
       THEN LET z == ZipPair(vectors2d, words, k + 1) IN
            /\ markers' = Append(markers, [x |-> z.point.x, y |-> z.point.y,
                                           c |-> MarkerColor(first)])
            /\ labels' = Append(labels, [text |-> z.word,
                                         xy |-> <<z.point.x, z.point.y>>,
                                         xytext |-> LabelOffset(first),
                                         ha |-> LabelAlign(first)])
            /\ events' = events \o <<"scatter", "annotate">>
            /\ first' = NextFirst(first, alternate)
            /\ k' = k + 1
            /\ pc' = pc
       ELSE /\ pc' = After("points")
            /\ UNCHANGED <<markers, labels, events, first, k>>
    /\ UNCHANGED <<model, calls, callNo, error, words, pca, alternate, arrows, x1, x2, y1,
                   y2, title, vectors, vectors2d, figure, axis, connectors, heading,
                   shown, reduced>>

\* if arrows: one iteration of for i in range(0, len(words)-1, 2), or its end
Arrows ==
    /\ pc = "arrows"
    /\ IF arrows /\ Len(connectors) < Len(ArrowRange(Len(words)))
       THEN LET i == ArrowRange(Len(words))[Len(connectors) + 1] IN
            /\ connectors' = Append(connectors, Arrow(vectors2d[i + 1], vectors2d[i + 2]))
            /\ events' = Append(events, "arrow")
            /\ pc' = pc
       ELSE /\ pc' = After("arrows")
            /\ UNCHANGED <<connectors, events>>
    /\ UNCHANGED <<model, calls, callNo, error, words, pca, alternate, arrows, x1, x2, y1,
                   y2, title, vectors, vectors2d, first, k, figure, axis, markers,
                   labels, heading, shown, reduced>>

\* if title: plt.title(title)
Title ==
    /\ pc = "title"
    /\ heading' = IF title # "" THEN title ELSE heading
    /\ events' = IF title # "" THEN Append(events, "title") ELSE events
    /\ pc' = After("title")
    /\ UNCHANGED <<model, calls, callNo, error, words, pca, alternate, arrows, x1, x2, y1,
                   y2, title, vectors, vectors2d, first, k, figure, axis, markers,
                   labels, connectors, shown, reduced>>

\* plt.tight_layout(); plt.show(); the call returns
Show ==
    /\ pc = "show"
    /\ events' = events \o <<"tight_layout", "show">>
    /\ shown' = Append(shown, callNo)
    /\ pc' = After("show")
    /\ UNCHANGED <<model, calls, callNo, error, words, pca, alternate, arrows, x1, x2, y1,
                   y2, title, vectors, vectors2d, first, k, figure, axis, markers,
                   labels, connectors, heading, reduced>>

Next == Call \/ LookupWord \/ Reduce \/ Figure \/ Points \/ Arrows \/ Title \/ Show

Spec == Init /\ [][Next]_vars

SpecScript == InitScript /\ [][Next]_vars

----------------------------------------------------------------------------
(* Vocabulary of the properties *)

\* the arguments of the call in progress
ThisCall == calls[callNo]

InCall == callNo >= 1

AllInModel == \A j \in 1..Len(words) : words[j] \in DOMAIN model

Returned == InCall /\ pc = "returned"

Raised == InCall /\ pc = "raised"

\* connector conn runs from the marker of point p to the marker of point q:
\* its tail is at p's height and its head at q's, each Margin beside the point
Links(conn, p, q) ==
    /\ conn.x = p.x + Margin /\ conn.y = p.y
    /\ conn.x + conn.dx = q.x - Margin /\ conn.y + conn.dy = q.y

----------------------------------------------------------------------------
(* C1: for a word list of length N whose words are all in the model, a    *)
(* call with arrows=True draws exactly floor(N/2) connectors, the j-th    *)
(* from point 2(j-1) to point 2(j-1)+1, and no other; with arrows=False   *)
(* it draws none.  For odd N the last point has no connector.             *)
C1_ArrowCount ==
    (InCall /\ AllInModel) =>
        /\ \A j \in 1..Len(connectors) :
              /\ 2 * j <= Len(vectors2d)
              /\ Links(connectors[j], vectors2d[2 * j - 1], vectors2d[2 * j])
        /\ ~arrows => connectors = <<>>
        /\ Raised => connectors = <<>> /\ Len(words) \div 2 = 0
        /\ (Returned /\ arrows) => Len(connectors) = Len(words) \div 2

C1_Witness ==
    /\ Returned /\ arrows /\ AllInModel
    /\ Len(words) = 4 /\ Len(connectors) = 2
    /\ vectors2d[1] # vectors2d[3]

----------------------------------------------------------------------------
(* C2: with alternate=True the point at index i gets the first style (red *)
(* marker, label offset (-7,-6), anchored right) when i is even and the   *)
(* second style (green, (7,-6), anchored left) when i is odd; with        *)
(* alternate=False every point gets the first style.  Colour, offset and  *)
(* alignment of one point belong to the same style.                       *)
FirstStyle(m, l) == m.c = "r" /\ l.xytext = <<-7, -6>> /\ l.ha = "right"

SecondStyle(m, l) == m.c = "g" /\ l.xytext = <<7, -6>> /\ l.ha = "left"

C2_Alternation ==
    InCall =>
        /\ Len(labels) = Len(markers)
        /\ \A j \in 1..Len(markers) :
              IF alternate /\ (j - 1) % 2 = 1
              THEN SecondStyle(markers[j], labels[j])
              ELSE FirstStyle(markers[j], labels[j])

C2_Witness ==
    /\ Returned /\ alternate /\ Len(markers) >= 3
    /\ SecondStyle(markers[2], labels[2])
    /\ FirstStyle(markers[3], labels[3])

----------------------------------------------------------------------------
(* C3: a call whose word list contains a word absent from the model       *)
(* raises a lookup failure and produces no image: wherever the absent     *)
(* word stands, no figure is created, no marker, label, connector or      *)
(* title is drawn, no reducer runs and nothing is shown.                  *)
C3_MissingWord ==
    (InCall /\ ~AllInModel) =>
        /\ pc \in {"lookup", "raised"}
        /\ pc = "raised" => error = "KeyError"
        /\ \A j \in 1..Len(vectors) : words[j] \in DOMAIN model
        /\ Len(vectors) < Len(words)
        /\ ~figure /\ axis = <<>>
        /\ markers = <<>> /\ labels = <<>> /\ connectors = <<>>
        /\ heading = ""
        /\ reduced = <<>>
        /\ \A j \in 1..Len(shown) : shown[j] # callNo

C3_Witness ==
    /\ Raised /\ error = "KeyError"
    /\ Len(words) >= 3 /\ Len(vectors) = 2
    /\ ~figure /\ shown = <<>>

----------------------------------------------------------------------------
(* C4: a call with an empty word list and arrows=True, for either reducer *)
(* setting, completes without error and yields an empty plot: no marker,  *)
(* label or connector, and the plot is still shown.                       *)
C4_EmptyListCompletes ==
    (InCall /\ words = <<>> /\ arrows) =>
        /\ pc # "raised" /\ error = ""
        /\ markers = <<>> /\ labels = <<>> /\ connectors = <<>>
        /\ Returned => shown = <<callNo>>

----------------------------------------------------------------------------
(* C5: the visible plot range is fixed to (x1,x2,y1,y2) if and only if    *)
(* the caller supplied axis bounds; without bounds it is left to          *)
(* auto-scale; for both values of the pca flag.                           *)
BoundsSupplied(c) == {"x1", "x2", "y1", "y2"} \subseteq DOMAIN c

C5_AxisIffSupplied ==
    (InCall /\ figure) =>
        IF BoundsSupplied(ThisCall)
        THEN axis = <<ThisCall.x1, ThisCall.x2, ThisCall.y1, ThisCall.y2>>
        ELSE axis = <<>>

----------------------------------------------------------------------------
(* C6: a run of the script cannot partially succeed on a lookup error: if *)
(* any word of any of the three groups is absent from the model, the run  *)
(* ends in an unrecovered failure and no group's plot has been displayed. *)
GroupLacksWord(n) == \E j \in 1..Len(calls[n].words) : calls[n].words[j] \notin DOMAIN model

SomeGroupLacksWord == \E n \in 1..Len(calls) : GroupLacksWord(n)

\* the first call whose group has a word the model lacks
FirstLacking == CHOOSE n \in 1..Len(calls) :
                    GroupLacksWord(n) /\ \A m \in 1..(n - 1) : ~GroupLacksWord(m)

C6_NoPlotShown ==
    SomeGroupLacksWord =>
        /\ shown = <<>>
        /\ ~(pc = "returned" /\ callNo = Len(calls))

(* C6 as amended: the run ends in an unrecovered KeyError in the first    *)
(* call whose group has an absent word; the plot of that group and of     *)
(* every later group is never displayed, the plots of the groups before   *)
(* it have been displayed by then, in order.                              *)
C6_FailsAtFirstLackingGroup ==
    SomeGroupLacksWord =>
        /\ callNo <= FirstLacking
        /\ \A j \in 1..Len(shown) : shown[j] = j /\ j < FirstLacking
        /\ callNo = FirstLacking => pc \in {"lookup", "raised"} /\ ~figure
        /\ pc = "raised" =>
              /\ error = "KeyError"
              /\ callNo = FirstLacking
              /\ Len(shown) = FirstLacking - 1

C6_Witness ==
    /\ SomeGroupLacksWord /\ ~GroupLacksWord(1)
    /\ pc = "raised" /\ error = "KeyError"
    /\ callNo = 2 /\ shown = <<1>>

----------------------------------------------------------------------------
(* C7: every connector for a pair (2k, 2k+1) is shortened by the margin   *)
(* at both ends: its tail lies the margin away from point 2k in the       *)
(* direction of point 2k+1, its head the margin away from point 2k+1 in   *)
(* the direction of point 2k, so it is never longer than the segment      *)
(* between the two points, whatever their relative position.              *)
Dot(ux, uy, vx, vy) == ux * vx + uy * vy

\* the vector (tx, ty) has length Margin and points the way (dx, dy) does
MarginToward(tx, ty, dx, dy) ==
    /\ Dot(tx, ty, tx, ty) = Margin * Margin
    /\ tx * dy = ty * dx
    /\ Dot(tx, ty, dx, dy) > 0

C7_ConnectorShortened ==
    \A j \in 1..Len(connectors) :
        LET p == vectors2d[2 * j - 1]
            q == vectors2d[2 * j]
            conn == connectors[j]
            hx == conn.x + conn.dx
            hy == conn.y + conn.dy
        IN  /\ Dot(conn.dx, conn.dy, conn.dx, conn.dy)
                  <= Dot(q.x - p.x, q.y - p.y, q.x - p.x, q.y - p.y)
            /\ p # q =>
                  /\ MarginToward(conn.x - p.x, conn.y - p.y, q.x - p.x, q.y - p.y)
                  /\ MarginToward(hx - q.x, hy - q.y, p.x - q.x, p.y - q.y)

----------------------------------------------------------------------------
----------------------------------------------------------------------------
(* C9: every successful call performs its steps in the fixed order: all   *)
(* vector lookups, one reduction, all markers and labels in word-list     *)
(* order, all connectors (only if arrows), the title (only if non-empty), *)
(* the display; the display happens exactly once and is the last step.    *)
Repeat(s, n) == [j \in 1..(n * Len(s)) |-> s[1 + ((j - 1) % Len(s))]]

IsStep(e) == e \in {"lookup", "PCA", "TSNE", "scatter", "annotate", "arrow", "title", "show"}

\* the steps of a successful call with the arguments of the call in progress
ExpectedSteps ==
    LET n == Len(ThisCall.words) IN
        Repeat(<<"lookup">>, n)
        \o <<IF Param(ThisCall, "pca", FALSE) THEN "PCA" ELSE "TSNE">>
        \o Repeat(<<"scatter", "annotate">>, n)
        \o (IF Param(ThisCall, "arrows", TRUE) THEN Repeat(<<"arrow">>, n \div 2) ELSE <<>>)
        \o (IF Param(ThisCall, "title", "") # "" THEN <<"title">> ELSE <<>>)
        \o <<"show">>

IsPrefix(s, t) == Len(s) <= Len(t) /\ s = SubSeq(t, 1, Len(s))

C9_StepOrder ==
    InCall =>
        LET steps == SelectSeq(events, IsStep) IN
        /\ IsPrefix(steps, ExpectedSteps)
        /\ Returned =>
              /\ steps = ExpectedSteps
              /\ events[Len(events)] = "show"
              /\ Cardinality({j \in 1..Len(shown) : shown[j] = callNo}) = 1
        /\ ~Returned => \A j \in 1..Len(shown) : shown[j] # callNo

C9_Witness ==
    /\ Returned /\ arrows /\ title # ""
    /\ Len(words) = 4 /\ Len(connectors) = 2 /\ Len(markers) = 4
    /\ heading = title /\ shown = <<1>>

----------------------------------------------------------------------------
(* C10: each call selects and invokes exactly one of the two reducers,    *)
(* exactly once, by the pca flag alone: PCA if pca is true, t-SNE if it   *)
(* is false; alternate, arrows, the axis bounds and the title influence   *)
(* neither the choice nor the vectors the reducer is given.               *)
C10_ReducerByFlag ==
    InCall =>
        /\ Len(reduced) <= 1
        /\ pc \in {"figure", "points", "arrows", "title", "show", "returned"}
              => Len(reduced) = 1
        /\ \A j \in 1..Len(reduced) :
              /\ reduced[j].kind = IF Param(ThisCall, "pca", FALSE) THEN "PCA" ELSE "TSNE"
              /\ reduced[j].input = [n \in 1..Len(ThisCall.words) |-> model[ThisCall.words[n]]]

C10_Witness ==
    /\ Returned /\ Len(reduced) = 1 /\ reduced[1].kind = "TSNE"
    /\ alternate /\ arrows /\ title # "" /\ BoundsSupplied(ThisCall)
    /\ Len(words) >= 2

====
